---------------------------- MODULE Spec2Model ----------------------------
(***************************************************************************)
(* Model of the roof-area estimation server (src/server.py):               *)
(*   - CombinedHandler.do_GET, branch /api/analyze-roof (lines 166-200)    *)
(*   - detect_roof_area(lat, lng)                        (lines 24-115)    *)
(*                                                                         *)
(* One request is handled at a time (socketserver.TCPServer is            *)
(* single-threaded).  The handler and the estimator are followed step by   *)
(* step through pc; every step is one action.                              *)
(*                                                                         *)
(* Numbers.  TLC has integers only, so the floating-point quantities are   *)
(* kept in fixed point:                                                    *)
(*   - latitudes and longitudes are whole degrees;                          *)
(*   - area_sq_feet is kept in units of 1/10000 sq ft (AreaUnit);          *)
(*   - the logarithm of line 39 is kept in units of 2^-21 (LogUnit).       *)
(* The external collaborators (tile service, PIL decoder, the pixel data   *)
(* of the tile) are nondeterministic inputs.  A decoded image is           *)
(* represented by its shape (w, h, ch); the two counts numpy derives from  *)
(* its pixels (np.sum(building_mask), np.sum(building_candidate)) are      *)
(* chosen when the detector runs, within what the array operations allow.  *)
(***************************************************************************)
EXTENDS Integers, Sequences, FiniteSets, TLC

VARIABLES
    HAS_CV2,              \* module flag set at import (lines 14-19)
    pc,                   \* position of the single server thread
    served,               \* number of analyze-roof requests begun
    latParam, lngParam,   \* raw query parameters of the current request
    lat, lng,             \* <<>> or <<degrees>>: the parsed floats
    invoked,              \* detect_roof_area was called for this request
    x, y,                 \* <<>> or <<tile index>>
    fetches,              \* urlopen attempts made by the current call
    img,                  \* shape of the decoded image, NoImg before
    building_mask_count,  \* <<>> or <<np.sum(building_mask)>> (line 79)
    mask_used,            \* "none" | "primary" | "variance"
    area_pixels,          \* <<>> or <<count handed to the area conversion>>
    area_sq_feet,         \* <<>> or <<area after line 102, in AreaUnit>>
    retval,               \* <<>> or <<value returned by detect_roof_area>>
    failure,              \* which step of the pipeline failed, "none" if none
    propagated,           \* exception that left detect_roof_area, or "none"
    status,               \* HTTP status sent, 0 before
    body                  \* <<>> or <<roof_area>> of the JSON body sent

vars == <<HAS_CV2, pc, served, latParam, lngParam, lat, lng, invoked, x, y,
          fetches, img, building_mask_count, mask_used, area_pixels,
          area_sq_feet, retval, failure, propagated, status, body>>

---------------------------------------------------------------------------
(* Bounds of the model *)

MaxRequests == 2
MaxTileSide == 512
CountStride == 8192

(* Program constants *)

zoom == 18
DefaultArea == 4500
OversizeArea == 8000
MinArea == 500
MaxArea == 15000
MinMaskPixels == 100
TileSide == 256
RoundTo == 100
BadRequest == 400
ServerError == 500
OkStatus == 200

\* Fixed-point unit of area_sq_feet: 1/10000 sq ft.
AreaUnit == 10000
\* (38.2 / 256.0) ** 2 * 10.764 * 0.6 = 0.143804254394... sq ft per pixel,
\* given here times 10^9 (lines 94-102).
SqFtPerPixelE9 == 143804254
\* Fixed-point unit of the logarithm of line 39: 2^-21.
LogUnit == 2097152

---------------------------------------------------------------------------
(* Helpers *)

RECURSIVE Pow2(_)
Pow2(k) == IF k = 0 THEN 1 ELSE 2 * Pow2(k - 1)

Abs(a) == IF a < 0 THEN 0 - a ELSE a

\* Python's int() of a float: truncation toward zero.
TruncDiv(a, b) == IF a >= 0 THEN a \div b ELSE 0 - ((0 - a) \div b)

None == <<>>
Some(v) == <<v>>
NoImg == [w |-> 0, h |-> 0, ch |-> 0]

---------------------------------------------------------------------------
(* Inputs *)

\* Query-string values, as sequences of characters.  A key that is absent,
\* or present with a blank value, is the empty sequence after
\* parse_qs(...).get(key, [''])[0] (parse_qs drops blank values).
Digits == {"0", "1", "2", "3", "4", "5", "6", "7", "8", "9"}
DigitVal(c) ==
    CASE c = "0" -> 0 [] c = "1" -> 1 [] c = "2" -> 2 [] c = "3" -> 3
      [] c = "4" -> 4 [] c = "5" -> 5 [] c = "6" -> 6 [] c = "7" -> 7
      [] c = "8" -> 8 [] c = "9" -> 9

LatTexts == { <<>>, <<"a", "b", "c">>, <<"-">>, <<"4", "5", "N">>,
              <<"-", "6", "0">>, <<"-", "4", "5">>, <<"-", "3", "0">>,
              <<"0">>, <<"3", "0">>, <<"4", "0">>, <<"4", "5">>,
              <<"6", "0">> }
LngTexts == { <<>>, <<"x">>, <<"-", "1", "8", "0">>, <<"0">>,
              <<"+", "9", "0">> }

\* Shapes PIL can hand back: any width and height, 1 to 4 channels
\* ('L'/'P' -> 1, 'LA' -> 2, 'RGB' -> 3, 'RGBA' -> 4).
Sides == {1, TileSide, MaxTileSide}
Channels == {1, 2, 3, 4}
Grids == [w : Sides, h : Sides, ch : Channels]

\* Sampled pixel counts in 0..limit: the neighbourhood of the detector's
\* threshold, every CountStride-th count, and the limit itself.
CountSamples(limit) ==
    { c \in {0, MinMaskPixels - 1, MinMaskPixels, MinMaskPixels + 1, limit}
            \cup { k * CountStride : k \in 0..(limit \div CountStride) } :
        c <= limit }

---------------------------------------------------------------------------
(* float(s) of lines 176-177, for the literals of the model: an optional   *)
(* sign followed by one or more decimal digits.  Anything else raises      *)
(* ValueError.                                                             *)

RECURSIVE DigitsValue(_, _)
DigitsValue(s, acc) ==
    IF s = <<>> THEN acc
    ELSE DigitsValue(Tail(s), 10 * acc + DigitVal(Head(s)))

AllDigits(s) == s # <<>> /\ \A i \in 1..Len(s) : s[i] \in Digits

Unsigned(s) == IF s # <<>> /\ Head(s) \in {"+", "-"} THEN Tail(s) ELSE s

IsFloat(s) == AllDigits(Unsigned(s))

Float(s) ==
    IF s # <<>> /\ Head(s) = "-" THEN 0 - DigitsValue(Tail(s), 0)
    ELSE DigitsValue(Unsigned(s), 0)

---------------------------------------------------------------------------
(* Tile coordinates, lines 35-39 *)

\* n = 2.0 ** zoom
n == Pow2(zoom)

\* x = int((lng + 180.0) / 360.0 * n)
TileX(lngDeg) == TruncDiv((lngDeg + 180) * n, 360)

\* The argument of np.tan on line 39, (lat * pi / 180) + pi / 4, in degrees.
TanArgDeg(latDeg) == latDeg + 45

\* Sign of np.tan(...) / np.pi on line 39 for an argument in -45..135
\* degrees.  At 90 degrees the float argument is just below pi/2 and the
\* tangent is large and positive (1.6e16); at 0 it is exactly 0.0.
LogArgSign(latDeg) ==
    LET t == TanArgDeg(latDeg)
    IN  IF t = 0 THEN 0
        ELSE IF t > 0 /\ t <= 90 THEN 1
        ELSE -1

\* np.log(np.tan(lat * pi / 180 + pi / 4) / pi) in LogUnit, rounded to the
\* nearest unit, for the latitudes of the model whose argument is positive.
LogTanOverPi(latDeg) ==
    CASE latDeg = -30 -> -5162533    \* log(tan(15 deg) / pi) = -2.461688
      [] latDeg = 0   -> -2400673    \* log(tan(45 deg) / pi) = -1.144730
      [] latDeg = 30  -> 361188      \* log(tan(75 deg) / pi) =  0.172228
      [] latDeg = 40  -> 2708506     \* log(tan(85 deg) / pi) =  1.291516
      [] latDeg = 45  -> 75889904    \* log(1.633e16 / pi)    = 36.186745

\* What line 39 does: "ok" with y, or the exception int() raises on the
\* nan (log of a negative number) or the inf (log of zero) it is given.
\* y = int((1.0 - np.log(np.tan(...) / np.pi)) / 2.0 * n)
TileY(latDeg) ==
    CASE LogArgSign(latDeg) < 0 -> [exc |-> "ValueError", y |-> None]
      [] LogArgSign(latDeg) = 0 -> [exc |-> "OverflowError", y |-> None]
      [] OTHER ->
            [exc |-> "none",
             y |-> Some(TruncDiv(LogUnit - LogTanOverPi(latDeg),
                                 (2 * LogUnit) \div n))]

---------------------------------------------------------------------------
(* Detector, lines 66-89 *)

\* edge_binary = edges > np.percentile(edges, 75): with the percentile
\* interpolated between the order statistics around 0.75 * (N - 1), at most
\* N - 1 - floor(0.75 * (N - 1)) of the N values lie strictly above it, and
\* building_mask = dark_pixels & edge_binary has no more.
MaxPrimary(g) ==
    LET N == g.w * g.h IN N - 1 - ((3 * (N - 1)) \div 4)

\* np.gradient needs at least two samples along each axis, else ValueError.
GradientDefined(g) == g.w >= 2 /\ g.h >= 2

\* (C5 mutant: the threshold test off by one, area_pixels <= 100)
FallbackTriggeredLE(p) == p <= MinMaskPixels
\* if area_pixels < 100:
FallbackTriggered(p) == p < MinMaskPixels

\* if len(img_array.shape) == 3 and img_array.shape[2] >= 3:
HasColour(g) == g.ch >= 3

---------------------------------------------------------------------------
(* Area conversion, lines 91-111 *)

\* (C10 mutant: the area without the 0.6 correction of line 102)
AreaSqFeetUncorrected(pixels) ==
    LET e9 == (SqFtPerPixelE9 * 10) \div 6
    IN  pixels * (e9 \div 100000) + (pixels * (e9 % 100000)) \div 100000
\* area_sq_feet after line 102, in AreaUnit: pixels * 0.1438042544.  The
\* product is split so that it stays within 32 bits; on 0..600000 pixels the
\* result of lines 105-111 on it equals that of the float64 evaluation.
AreaSqFeet(pixels) ==
    pixels * (SqFtPerPixelE9 \div 100000)
      + (pixels * (SqFtPerPixelE9 % 100000)) \div 100000

\* Python 3 round(): to the nearest integer, ties to the even one.
\* RoundDiv(a, d) = round(a / d)
RoundDiv(a, d) ==
    LET q == a \div d
        r == a % d
    IN  IF 2 * r < d THEN q
        ELSE IF 2 * r > d THEN q + 1
        ELSE IF q % 2 = 0 THEN q ELSE q + 1

\* (C4 mutant: out-of-range areas clamped to the boundary)
SanityCheckClamp(a) ==
    IF a < MinArea * AreaUnit THEN MinArea
    ELSE IF a > MaxArea * AreaUnit THEN MaxArea
    ELSE RoundDiv(a, RoundTo * AreaUnit) * RoundTo
\* (C1 mutant: the final rounding to 100 left out)
SanityCheckNoRound(a) ==
    IF a < MinArea * AreaUnit THEN DefaultArea
    ELSE IF a > MaxArea * AreaUnit THEN OversizeArea
    ELSE a \div AreaUnit
\* Lines 105-111, on an area in AreaUnit; the result is in sq ft.  The
\* substituted constants go through the same round(... / 100) * 100.
SanityCheck(a) ==
    IF a < MinArea * AreaUnit THEN RoundDiv(DefaultArea, RoundTo) * RoundTo
    ELSE IF a > MaxArea * AreaUnit THEN RoundDiv(OversizeArea, RoundTo) * RoundTo
    ELSE RoundDiv(a, RoundTo * AreaUnit) * RoundTo

---------------------------------------------------------------------------
(* Exceptions *)

\* except Exception (line 113): every exception the pipeline can raise is a
\* subclass of Exception.
PipelineExceptions ==
    {"ValueError", "OverflowError", "URLError", "TimeoutError",
     "UnidentifiedImageError"}
\* (C2 mutant: a handler that only catches the network error)
CatchesOnlyURLError(exc) == exc = "URLError"
Catches(exc) == exc \in PipelineExceptions

\* (C9 mutant: one retry after a failed attempt)
AfterFetchErrorRetry(k) == IF k < 2 THEN "fetch" ELSE "except"
\* Where control goes when urlopen raises on its k-th attempt: to the
\* except clause; there is no loop around line 49.
AfterFetchError(k) == "except"

\* (C8 mutant: every exception of the handler answered 500)
ErrorStatusAlways500(exc) == ServerError
\* The handler's except clauses, lines 196-200.
ErrorStatus(exc) == IF exc = "ValueError" THEN BadRequest ELSE ServerError

---------------------------------------------------------------------------
(* State machine *)

reqVars == <<latParam, lngParam, lat, lng, invoked>>
tileVars == <<x, y>>
detVars == <<img, building_mask_count, mask_used, area_pixels, area_sq_feet>>
outVars == <<retval, failure, propagated>>
respVars == <<status, body>>

\* The module is imported (HAS_CV2 is decided by the import of numpy and
\* PIL) and the server waits in serve_forever().
Init ==
    /\ HAS_CV2 \in BOOLEAN
    /\ pc = "idle"
    /\ served = 0
    /\ latParam = <<>> /\ lngParam = <<>>
    /\ lat = None /\ lng = None
    /\ invoked = FALSE
    /\ x = None /\ y = None
    /\ fetches = 0
    /\ img = NoImg
    /\ building_mask_count = None
    /\ mask_used = "none"
    /\ area_pixels = None
    /\ area_sq_feet = None
    /\ retval = None
    /\ failure = "none"
    /\ propagated = "none"
    /\ status = 0
    /\ body = None

\* An exception raised inside the try block of detect_roof_area at `step`:
\* the except clause of lines 113-115 turns it into the default, anything it
\* does not catch leaves the function.
Raise(exc, step) ==
    /\ failure' = step
    /\ IF Catches(exc)
         THEN retval' = Some(DefaultArea) /\ propagated' = "none"
         ELSE retval' = None /\ propagated' = exc
    /\ pc' = "after_call"

\* do_GET for /api/analyze-roof with the query values latText and lngText,
\* up to the call of detect_roof_area (lines 166-182) or to the 400 answer.
BeginAnalyzeRoof(latText, lngText) ==
    /\ pc \in {"idle", "responded"}
    /\ served < MaxRequests
    /\ served' = served + 1
    /\ latParam' = latText /\ lngParam' = lngText
    /\ x' = None /\ y' = None /\ fetches' = 0
    /\ img' = NoImg /\ building_mask_count' = None /\ mask_used' = "none"
    /\ area_pixels' = None /\ area_sq_feet' = None
    /\ retval' = None /\ failure' = "none" /\ propagated' = "none"
    /\ body' = None
    /\ IF latText = <<>> \/ lngText = <<>>
         THEN \* if not lat or not lng: send_json_error(400, ...); return
              /\ lat' = None /\ lng' = None /\ invoked' = FALSE
              /\ status' = BadRequest
              /\ pc' = "responded"
         ELSE IF ~IsFloat(latText)
         THEN \* lat = float(lat) raises ValueError
              /\ lat' = None /\ lng' = None /\ invoked' = FALSE
              /\ status' = ErrorStatus("ValueError")
              /\ pc' = "responded"
         ELSE IF ~IsFloat(lngText)
         THEN \* lng = float(lng) raises ValueError
              /\ lat' = Some(Float(latText)) /\ lng' = None
              /\ invoked' = FALSE
              /\ status' = ErrorStatus("ValueError")
              /\ pc' = "responded"
         ELSE /\ lat' = Some(Float(latText))
              /\ lng' = Some(Float(lngText))
              /\ invoked' = TRUE
              /\ status' = 0
              /\ pc' = "call"
    /\ UNCHANGED HAS_CV2

\* detect_roof_area, lines 29-41: the capability check and the tile index.
ComputeTile ==
    /\ pc = "call"
    /\ IF ~HAS_CV2
         THEN /\ retval' = Some(DefaultArea)
              /\ pc' = "after_call"
              /\ UNCHANGED <<x, y, failure, propagated>>
         ELSE LET ty == TileY(lat[1])
              IN  /\ x' = Some(TileX(lng[1]))
                  /\ y' = ty.y
                  /\ IF ty.exc = "none"
                       THEN /\ pc' = "fetch"
                            /\ UNCHANGED outVars
                       ELSE Raise(ty.exc, "tile_index")
    /\ UNCHANGED <<HAS_CV2, served, reqVars, fetches, detVars, respVars>>

\* Lines 49-50: one blocking urlopen with timeout=10.
FetchTile ==
    /\ pc = "fetch"
    /\ fetches' = fetches + 1
    /\ \E outcome \in {"ok", "URLError", "TimeoutError"} :
         IF outcome = "ok"
           THEN pc' = "decode" /\ UNCHANGED outVars
           ELSE IF AfterFetchError(fetches') = "fetch"
           THEN pc' = "fetch" /\ UNCHANGED outVars
           ELSE Raise(outcome, IF outcome = "URLError" THEN "network"
                                                       ELSE "timeout")
    /\ UNCHANGED <<HAS_CV2, served, reqVars, tileVars, detVars, respVars>>

\* Lines 53-64: Image.open and the conversions to arrays.
DecodeImage ==
    /\ pc = "decode"
    /\ \/ \E g \in Grids :
            /\ img' = g
            /\ pc' = "detect"
            /\ UNCHANGED outVars
       \/ /\ Raise("UnidentifiedImageError", "decode")
          /\ UNCHANGED img
    /\ UNCHANGED <<HAS_CV2, served, reqVars, tileVars, fetches,
                   building_mask_count, mask_used, area_pixels,
                   area_sq_feet, respVars>>

\* Lines 66-89: gradient, percentile threshold, primary mask, fallback.
DetectMask ==
    /\ pc = "detect"
    /\ IF ~GradientDefined(img)
         THEN /\ Raise("ValueError", "gradient")
              /\ UNCHANGED <<building_mask_count, mask_used, area_pixels>>
         ELSE \E p \in CountSamples(MaxPrimary(img)) :
                /\ building_mask_count' = Some(p)
                /\ IF ~FallbackTriggered(p)
                     THEN /\ mask_used' = "primary"
                          /\ area_pixels' = Some(p)
                          /\ pc' = "convert"
                          /\ UNCHANGED outVars
                     ELSE IF HasColour(img)
                     THEN \E v \in CountSamples(img.w * img.h) :
                            /\ mask_used' = "variance"
                            /\ area_pixels' = Some(v)
                            /\ pc' = "convert"
                            /\ UNCHANGED outVars
                     ELSE \* return 4500
                          /\ mask_used' = "none"
                          /\ area_pixels' = Some(p)
                          /\ retval' = Some(DefaultArea)
                          /\ failure' = "undetectable"
                          /\ pc' = "after_call"
                          /\ UNCHANGED propagated
    /\ UNCHANGED <<HAS_CV2, served, reqVars, tileVars, fetches, img,
                   area_sq_feet, respVars>>

\* Lines 91-111: pixels to square feet, sanity substitution, rounding.
ConvertArea ==
    /\ pc = "convert"
    /\ area_sq_feet' = Some(AreaSqFeet(area_pixels[1]))
    /\ retval' = Some(SanityCheck(area_sq_feet'[1]))
    /\ pc' = "after_call"
    /\ UNCHANGED <<HAS_CV2, served, reqVars, tileVars, fetches, img,
                   building_mask_count, mask_used, area_pixels, failure,
                   propagated, respVars>>

\* Back in do_GET, lines 184-200: the JSON answer, or the except clauses
\* for an exception that came out of the call.
Respond ==
    /\ pc = "after_call"
    /\ IF propagated = "none"
         THEN status' = OkStatus /\ body' = retval
         ELSE status' = ErrorStatus(propagated) /\ body' = None
    /\ pc' = "responded"
    /\ UNCHANGED <<HAS_CV2, served, reqVars, tileVars, fetches, detVars,
                   outVars>>

Next ==
    \/ \E latText \in LatTexts, lngText \in LngTexts :
         BeginAnalyzeRoof(latText, lngText)
    \/ ComputeTile
    \/ FetchTile
    \/ DecodeImage
    \/ DetectMask
    \/ ConvertArea
    \/ Respond

Spec == Init /\ [][Next]_vars

\* Every step of the handler is straight-line code on the one server
\* thread; the only blocking call, urlopen, returns or raises within its
\* timeout.  A step that is enabled is therefore taken.
FairSpec == Spec /\ WF_vars(Next)

\* The area conversion over every pixel count: the server starts, or the
\* call of the last request stands at line 91 for coordinate (0, 0) with a
\* square colour tile decoded and any count the detector can hand over.
ConvInit ==
    /\ HAS_CV2 = TRUE
    /\ pc = "convert"
    /\ served = MaxRequests
    /\ latParam = <<"0">> /\ lngParam = <<"0">>
    /\ lat = Some(0) /\ lng = Some(0)
    /\ invoked = TRUE
    /\ x = Some(TileX(0)) /\ y = TileY(0).y
    /\ fetches = 1
    /\ img \in {g \in Grids : g.w = g.h /\ g.w >= TileSide /\ g.ch = 3}
    /\ \E c \in 0..(img.w * img.h) :
         /\ area_pixels = Some(c)
         /\ \/ /\ ~FallbackTriggered(c)
               /\ c <= MaxPrimary(img)
               /\ mask_used = "primary"
               /\ building_mask_count = Some(c)
            \/ /\ mask_used = "variance"
               /\ building_mask_count = Some(0)
    /\ area_sq_feet = None
    /\ retval = None
    /\ failure = "none"
    /\ propagated = "none"
    /\ status = 0
    /\ body = None

ConvSpec == (Init \/ ConvInit) /\ [][Next]_vars

---------------------------------------------------------------------------
(* Properties *)

\* C1: whenever detect_roof_area has ended, it has returned a value, and
\* the value is 4500, 8000 or a multiple of 100 between 500 and 15000.
C1_ReturnInRange ==
    /\ pc \in {"after_call", "responded"} /\ invoked => retval # None
    /\ retval # None =>
         retval[1] \in {4500, 8000} \cup { 100 * k : k \in 5..150 }

\* C1 witness: a call has returned a computed value, neither 4500 nor 8000.
C1_Witness ==
    /\ pc = "after_call"
    /\ retval # None
    /\ retval[1] \notin {4500, 8000}
    /\ area_sq_feet # None

\* C2: a failure at any step of the pipeline (tile index, network, timeout,
\* decode, gradient, undetectable) ends the call with the value 4500, and no
\* exception ever leaves detect_roof_area.
C2_FailSoft ==
    /\ propagated = "none"
    /\ failure # "none" => retval = <<4500>> /\ pc \in {"after_call", "responded"}
    /\ status # 500

\* C2 witness: the tile fetch timed out and the caller got 4500 in a 200
\* answer.
C2_Witness ==
    /\ failure = "timeout"
    /\ retval = <<4500>>
    /\ pc = "responded"
    /\ status = 200
    /\ body = <<4500>>

\* C3: for lat = 0, lng = 0 (zoom 18) the tile indices are x = 131072 and
\* y = 131072.
C3_OriginTile ==
    (HAS_CV2 /\ invoked /\ pc # "call" /\ lat = <<0>> /\ lng = <<0>>)
        => x = <<131072>> /\ y = <<131072>>

\* C4: the converted area a is the pixel count times 0.1438...; the result
\* is 4500 when a < 500, 8000 when a > 15000, and otherwise the multiple of
\* 100 nearest to a; the boundaries 500 and 15000 and an in-range multiple
\* of 100 (7500) are returned as they are.
C4_Conversion ==
    /\ area_sq_feet # None =>
         LET a == area_sq_feet[1]
             c == area_pixels[1]
             r == retval[1]
         IN  /\ 1438 * c <= a /\ a <= 1439 * c
             /\ a < 500 * 10000 => r = 4500
             /\ a > 15000 * 10000 => r = 8000
             /\ (a >= 500 * 10000 /\ a <= 15000 * 10000) =>
                    /\ r % 100 = 0
                    /\ Abs(r * 10000 - a) <= 50 * 10000
    /\ SanityCheck(500 * 10000) = 500
    /\ SanityCheck(15000 * 10000) = 15000
    /\ SanityCheck(7500 * 10000) = 7500

\* C4 witness: a count whose area exceeds 15000 sq ft was converted and
\* 8000 came back.
C4_Witness ==
    /\ area_sq_feet # None
    /\ area_sq_feet[1] > 15000 * 10000
    /\ retval = <<8000>>

\* C5: the fallback is triggered exactly when the primary mask has fewer
\* than 100 pixels; a primary count of 100 or more is the count converted,
\* whatever the number of channels.
C5_PrimaryUsed ==
    building_mask_count # None =>
        LET p == building_mask_count[1]
        IN  /\ p >= 100 => /\ mask_used = "primary"
                           /\ area_pixels = <<p>>
                           /\ failure # "undetectable"
                           /\ pc \in {"convert", "after_call", "responded"}
            /\ p < 100 => mask_used # "primary"

\* C5 witness: a single-channel grid with exactly 100 primary pixels went
\* through the area conversion.
C5_Witness ==
    /\ building_mask_count = <<100>>
    /\ img.ch = 1
    /\ mask_used = "primary"
    /\ area_sq_feet # None

\* C6: for every latitude in (-85.05, 85.05) and longitude in [-180, 180]
\* the tile mapping yields indices without raising, so the call goes on to
\* the tile fetch.
C6_TileTotal ==
    (HAS_CV2 /\ invoked /\ pc # "call"
       /\ lat[1] > -86 /\ lat[1] < 86 /\ lng[1] >= -180 /\ lng[1] <= 180)
        => /\ failure # "tile_index"
           /\ x # None /\ y # None
           /\ fetches >= 1 \/ pc = "fetch"

\* C7: a decoded grid that is not 256 x 256 never reaches the area
\* conversion.
C7_ShapeGuard ==
    (pc = "convert" \/ area_sq_feet # None) => img.w = 256 /\ img.h = 256

\* C8: a request whose lat or lng is missing, empty or not a number is
\* answered 400 without detect_roof_area being invoked; the function is
\* invoked only with both parameters parsed; a call that returned is
\* answered 200 with the returned value as roof_area.
C8_Validation ==
    LET bad == { <<>>, <<"a", "b", "c">>, <<"-">>, <<"4", "5", "N">>,
                 <<"x">> }
    IN  /\ (served > 0 /\ (latParam \in bad \/ lngParam \in bad)) =>
              /\ ~invoked
              /\ pc = "responded"
              /\ status = 400
              /\ retval = None /\ fetches = 0
        /\ invoked => /\ latParam \notin bad /\ lngParam \notin bad
                      /\ lat # None /\ lng # None
        /\ (pc = "responded" /\ invoked /\ retval # None) =>
              status = 200 /\ body = retval

\* C8 witness: a request with a non-numeric latitude was answered 400.
C8_Witness ==
    /\ pc = "responded"
    /\ latParam = <<"4", "5", "N">>
    /\ lngParam = <<"0">>
    /\ status = 400
    /\ ~invoked

\* C9: a call makes at most one fetch attempt and then ends in one of the
\* two outcomes, a value or the default; a failed fetch is not retried, and
\* without the imaging library the call returns 4500 with no fetch.
C9_SingleAttempt ==
    /\ [](fetches <= 1)
    /\ [](pc = "after_call" => retval # None /\ propagated = "none")
    /\ []((pc = "after_call" /\ failure \in {"network", "timeout"}) =>
              fetches = 1 /\ retval = <<4500>>)
    /\ []((pc = "after_call" /\ ~HAS_CV2) =>
              fetches = 0 /\ retval = <<4500>>)
    /\ (pc = "call") ~> (pc = "after_call")

\* C9 witness: a call whose only fetch attempt failed has ended.
C9_Witness ==
    /\ pc = "after_call"
    /\ failure \in {"network", "timeout"}
    /\ fetches = 1

\* C10: for a 256 x 256 grid the corrected area never exceeds 15000, the
\* value returned is at most 9400, every count below 3477 returns 4500 and
\* every count from 3477 on is in range (a computed value).
C10_ExpectedTile ==
    /\ (img.w = 256 /\ img.h = 256 /\ retval # None) => retval[1] <= 9400
    /\ (img.w = 256 /\ img.h = 256 /\ area_sq_feet # None) =>
        LET a == area_sq_feet[1]
            c == area_pixels[1]
        IN  /\ c >= 0 /\ c <= 65536
            /\ a <= 15000 * 10000
            /\ retval[1] <= 9400
            /\ c < 3477 => a < 500 * 10000 /\ retval = <<4500>>
            /\ c >= 3477 => a >= 500 * 10000

\* C10 witness: a 256 x 256 grid with every pixel masked was converted and
\* 9400 came back.
C10_Witness ==
    /\ img.w = 256 /\ img.h = 256
    /\ area_pixels = <<65536>>
    /\ retval = <<9400>>

===========================================================================
